---- MODULE Spec2Model ----
(***************************************************************************)
(* Transfer-hook program (program/src/processor.rs): the instruction       *)
(* dispatcher `process`, its handlers, the TransferAccount codec and the   *)
(* account store the handlers read and write.                              *)
(*                                                                         *)
(* Account data is modelled byte by byte for every account this program    *)
(* owns (counter records, extra-account-meta lists).  Token accounts and   *)
(* mints belong to the token program; the processor only reads them        *)
(* through StateWithExtensions::unpack, so they are kept as decoded        *)
(* records.                                                                *)
(***************************************************************************)
EXTENDS Integers, Sequences, FiniteSets, TLC

(***************************************************************************)
(* Bounds of the model.                                                    *)
(***************************************************************************)
\* successful Execute invocations in one behaviour
MaxExec == 2
\* entries in an extra-account-meta list given to an instruction
MaxEntries == 2
\* accounts presented to Execute after the validation account
MaxTail == 2

(***************************************************************************)
(* Bytes, keys and 64-bit numbers.                                         *)
(* A u64 is a numeral of eight base-256 digits, most significant first;    *)
(* to_le_bytes / from_le_bytes convert between it and little-endian bytes. *)
(***************************************************************************)
Byte == 0..255

Zeros(n) == [i \in 1..n |-> 0]

\* A public key is named by a number below 256: Key(n) is the key whose 32
\* bytes all equal n.  to_bytes gives those bytes; key_from_bytes reads a key
\* back and gives OtherKey for bytes that are the key of no account here.
Key(n) == n

OtherKey == Key(256)

to_bytes(key) == [i \in 1..32 |-> key]

key_from_bytes(bytes) ==
    IF \A i \in 1..32 : bytes[i] = bytes[1] THEN Key(bytes[1]) ELSE OtherKey

Reverse(s) == [i \in 1..Len(s) |-> s[Len(s) + 1 - i]]

\* the bytes in the order of the numeral, most significant first
to_le_bytes_BigEndian(v) == v

to_le_bytes(v) == Reverse(v)

from_le_bytes(b) == Reverse(b)

\* the u64 numeral of a small natural number (n < 2^24)
U64(n) == [i \in 1..8 |-> IF i <= 5 THEN 0 ELSE (n \div (256 ^ (8 - i))) % 256]

U64_MAX == [i \in 1..8 |-> 255]

\* little-endian digit p (0 = least significant) of numeral v
Digit(v, p) == v[Len(v) - p]

RECURSIVE CarryInto(_, _, _)
\* carry into little-endian position p when adding numerals a and b
CarryInto(a, b, p) ==
    IF p = 0 THEN 0
    ELSE (Digit(a, p - 1) + Digit(b, p - 1) + CarryInto(a, b, p - 1)) \div 256

\* a + b on u64: the wrapped sum and whether the addition overflowed
AddU64(a, b) ==
    [sum |-> [i \in 1..8 |->
                (Digit(a, 8 - i) + Digit(b, 8 - i) + CarryInto(a, b, 8 - i)) % 256],
     overflow |-> CarryInto(a, b, 8) = 1]

\* u32 little-endian bytes of a small natural number (n < 2^16)
U32LE(n) == <<n % 256, n \div 256, 0, 0>>

FromU32LE(b) == IF b[3] = 0 /\ b[4] = 0 THEN b[1] + 256 * b[2] ELSE 65536

\* bytes lo+1 .. lo+n of s, with lo a zero-based offset
Slice(s, lo, n) == SubSeq(s, lo + 1, lo + n)

\* s with the n bytes at zero-based offset lo replaced by src
CopyInto(s, lo, src) ==
    [i \in 1..Len(s) |-> IF i > lo /\ i <= lo + Len(src) THEN src[i - lo] ELSE s[i]]

(***************************************************************************)
(* The keys of the model.                                                  *)
(***************************************************************************)
SYSTEM_PROGRAM == Key(0)
TOKEN_PROGRAM == Key(21)
OTHER_PROGRAM == Key(22)
\* this program's id
PROGRAM_ID == Key(20)

O1 == Key(1)
O2 == Key(2)
O3 == Key(3)
Wallets == {O1, O2, O3}

M1 == Key(4)
M2 == Key(5)
M3 == Key(6)
Mints == {M1, M2, M3}

\* token accounts: TA and TB are inside a transfer, TC is not, FK is an
\* account of another program that carries token-account data
TA == Key(7)
TB == Key(8)
TC == Key(9)
FK == Key(10)
TokenAccounts == {TA, TB, TC, FK}

\* seed of the validation account: b"extra-account-metas"
EXTRA_ACCOUNT_METAS_SEED ==
    <<101, 120, 116, 114, 97, 45, 97, 99, 99, 111, 117, 110, 116, 45, 109, 101, 116, 97, 115>>

\* Pubkey::find_program_address for the seeds this program uses: an injective
\* map from the seeds to addresses no wallet, mint or token account has.
find_program_address(seeds, program_id) ==
    IF Len(seeds) = 2 /\ seeds[1] = EXTRA_ACCOUNT_METAS_SEED
    THEN <<Key(200 + seeds[2][1]), 254>>
    ELSE <<Key(100 + seeds[1][1]), 255>>

get_extra_account_metas_address_and_bump_seed(mint, program_id) ==
    find_program_address(<<EXTRA_ACCOUNT_METAS_SEED, to_bytes(mint)>>, program_id)

get_extra_account_metas_address(mint, program_id) ==
    get_extra_account_metas_address_and_bump_seed(mint, program_id)[1]

\* the counter address of an owner and the validation address of a mint
CounterOf(owner) == find_program_address(<<to_bytes(owner)>>, PROGRAM_ID)[1]
ListOf(mint) == get_extra_account_metas_address(mint, PROGRAM_ID)

CP1 == CounterOf(O1)
CP2 == CounterOf(O2)
CP3 == CounterOf(O3)
MP1 == ListOf(M1)
MP2 == ListOf(M2)
MP3 == ListOf(M3)
Counters == {CP1, CP2, CP3}
Lists == {MP1, MP2, MP3}

Addrs == Wallets \cup Mints \cup TokenAccounts \cup Counters \cup Lists

(***************************************************************************)
(* Account data.                                                           *)
(***************************************************************************)
Raw(bytes) == [kind |-> "raw", bytes |-> bytes]

TokenData(transferring) == [kind |-> "token", transferring |-> transferring]

\* mint_authority is COption<Pubkey>: <<>> is None, <<k>> is Some(k)
MintData(mint_authority) == [kind |-> "mint", mint_authority |-> mint_authority]

\* Rent::default().minimum_balance(data_len)
minimum_balance(data_len) == (128 + data_len) * 3480 * 2

(***************************************************************************)
(* TransferAccount: the 40-byte counter record.                            *)
(***************************************************************************)
LEN == 32 + 8
OWNER_OFFSET == 0
TRANSFERED_OFFSET == 32

\* the record written without the owner key
pack_AmountOnly(owner, transfered, dst) ==
    CopyInto(dst, TRANSFERED_OFFSET, to_le_bytes(transfered))

pack(owner, transfered, dst) ==
    CopyInto(CopyInto(dst, OWNER_OFFSET, to_bytes(owner)),
             TRANSFERED_OFFSET, to_le_bytes(transfered))

\* Ok with the pair, or the error
unpack(src) ==
    IF Len(src) < LEN
    THEN [err |-> "InvalidAccountData"]
    ELSE [err |-> "Ok",
          owner |-> key_from_bytes(Slice(src, OWNER_OFFSET, 32)),
          transfered |-> from_le_bytes(Slice(src, TRANSFERED_OFFSET, 8))]

update_transfered(data, transfered) ==
    CopyInto(data, TRANSFERED_OFFSET, to_le_bytes(transfered))

INITIALIZE_TRANSFER_ACCOUNT == 255

(***************************************************************************)
(* ExtraAccountMetaList (spl_tlv_account_resolution): one TLV entry whose  *)
(* type is the Execute discriminator and whose value is a length-prefixed  *)
(* slice of 35-byte ExtraAccountMeta records                               *)
(*   discriminator (1) | address_config (32) | is_signer (1) | is_writable *)
(* The model uses literal-address entries (discriminator 0).               *)
(***************************************************************************)
EXECUTE_DISCRIMINATOR == <<105, 37, 101, 197, 75, 251, 102, 26>>
INITIALIZE_DISCRIMINATOR == <<43, 34, 13, 49, 167, 88, 235, 235>>
UPDATE_DISCRIMINATOR == <<157, 105, 42, 146, 102, 85, 241, 174>>

META_SIZE == 35
TLV_START == 12
SLICE_LENGTH_SIZE == 4

\* ExtraAccountMeta::new_with_pubkey(key, is_signer, is_writable)
MetaBytes(key, is_signer, is_writable) ==
    <<0>> \o to_bytes(key) \o <<IF is_signer THEN 1 ELSE 0, IF is_writable THEN 1 ELSE 0>>

RECURSIVE Flatten(_)
Flatten(ss) == IF ss = <<>> THEN <<>> ELSE Head(ss) \o Flatten(Tail(ss))

\* a length-prefixed slice of entries
PodSlicePack(metas) == U32LE(Len(metas)) \o Flatten(metas)

\* the entries of a length-prefixed slice, or the error
PodSliceUnpack(bytes) ==
    IF Len(bytes) < SLICE_LENGTH_SIZE
    THEN [err |-> "InvalidArgument"]
    ELSE LET count == FromU32LE(Slice(bytes, 0, SLICE_LENGTH_SIZE))
             room == Len(bytes) - SLICE_LENGTH_SIZE
         IN  IF room % META_SIZE # 0 \/ count * META_SIZE > room
             THEN [err |-> "InvalidArgument"]
             ELSE [err |-> "Ok",
                   metas |-> [i \in 1..count |->
                       Slice(bytes, SLICE_LENGTH_SIZE + META_SIZE * (i - 1), META_SIZE)]]

\* ExtraAccountMetaList::size_of(num_items)
size_of(num_items) == TLV_START + SLICE_LENGTH_SIZE + META_SIZE * num_items

\* ExtraAccountMetaList::init: the data after the write, or the error
list_init(data, metas) ==
    IF Len(data) < size_of(Len(metas))
    THEN [err |-> "InvalidAccountData"]
    ELSE IF Slice(data, 0, 8) = EXECUTE_DISCRIMINATOR
    THEN [err |-> "TypeAlreadyExists"]
    ELSE [err |-> "Ok",
          data |-> CopyInto(data, 0,
                      EXECUTE_DISCRIMINATOR
                      \o U32LE(SLICE_LENGTH_SIZE + META_SIZE * Len(metas))
                      \o PodSlicePack(metas))]

\* ExtraAccountMetaList::unpack_with_tlv_state: the stored entries, or the error
list_unpack(data) ==
    IF Len(data) < TLV_START \/ Slice(data, 0, 8) # EXECUTE_DISCRIMINATOR
    THEN [err |-> "InvalidAccountData"]
    ELSE LET length == FromU32LE(Slice(data, 8, 4))
         IN  IF TLV_START + length > Len(data)
             THEN [err |-> "InvalidAccountData"]
             ELSE PodSliceUnpack(Slice(data, TLV_START, length))

\* ExtraAccountMeta::resolve of one stored entry: the AccountMeta it demands
resolve(meta) ==
    IF meta[1] = 0
    THEN [err |-> "Ok",
          meta |-> [pubkey |-> key_from_bytes(Slice(meta, 1, 32)),
                    is_signer |-> meta[34] # 0,
                    is_writable |-> meta[35] # 0]]
    ELSE [err |-> "InvalidArgument"]

\* ExtraAccountMetaList::check_account_infos: entry i of the stored list must be
\* the account at position (number of accounts - number of entries) + i
check_account_infos(provided_metas, data) ==
    LET list == list_unpack(data)
    IN  IF list.err # "Ok" THEN list.err
        ELSE LET k == Len(list.metas)
                 initial_accounts_len == Len(provided_metas) - k
                 Good(i) ==
                     LET want == resolve(list.metas[i])
                     IN  /\ want.err = "Ok"
                         /\ initial_accounts_len + i >= 1
                         /\ provided_metas[initial_accounts_len + i] = want.meta
             IN  IF \A i \in 1..k : Good(i) THEN "Ok" ELSE "IncorrectAccount"

(***************************************************************************)
(* The system program, as the handlers invoke it.                          *)
(***************************************************************************)
Result(err, accts) == [err |-> err, accts |-> accts]

\* system_instruction::create_account, signed for both accounts
create_account(accts, from, to, lamports, space, owner) ==
    IF \/ accts[to].lamports > 0
       \/ accts[to].data # Raw(<<>>)
       \/ accts[to].owner # SYSTEM_PROGRAM
    THEN Result("AccountAlreadyInUse", accts)
    ELSE IF accts[from].lamports < lamports
    THEN Result("ResultWithNegativeLamports", accts)
    ELSE Result("Ok",
            [accts EXCEPT ![from].lamports = @ - lamports,
                          ![to] = [lamports |-> lamports,
                                   owner |-> owner,
                                   data |-> Raw(Zeros(space))]])

\* system_instruction::allocate, signed for the account
allocate(accts, key, space) ==
    IF accts[key].data # Raw(<<>>) \/ accts[key].owner # SYSTEM_PROGRAM
    THEN Result("AccountAlreadyInUse", accts)
    ELSE Result("Ok", [accts EXCEPT ![key].data = Raw(Zeros(space))])

\* system_instruction::assign, signed for the account
assign(accts, key, owner) ==
    IF accts[key].owner = owner
    THEN Result("Ok", accts)
    ELSE IF accts[key].owner # SYSTEM_PROGRAM
    THEN Result("InvalidAccountOwner", accts)
    ELSE Result("Ok", [accts EXCEPT ![key].owner = owner])

(***************************************************************************)
(* The handlers.  Each takes the account store as the invocation finds it  *)
(* and returns the error code ("Ok" on success) with the store as the      *)
(* handler left it when it returned.                                       *)
(***************************************************************************)
\* the check without the test of the flag
check_token_account_is_transferring_FlagIgnored(account_info) ==
    IF account_info.data.kind # "token"
    THEN "InvalidAccountData"
    ELSE "Ok"

check_token_account_is_transferring(account_info) ==
    IF account_info.data.kind # "token"
    THEN "InvalidAccountData"
    ELSE IF account_info.data.transferring
    THEN "Ok"
    ELSE "ProgramCalledOutsideOfTransfer"

\* the AccountMeta of a presented account
account_info_to_meta(key, signers) ==
    [pubkey |-> key, is_signer |-> key \in signers, is_writable |-> key \in Counters \cup Lists]

\* the handler without the early return for an existing record
already_exists_Never(account_info) == FALSE

\* "Check if account already exists": a balance stands for existence
already_exists(account_info) == account_info.lamports > 0

process_initialize_transfer_account(program_id, accounts, signers, accts) ==
    IF Len(accounts) < 3
    THEN Result("NotEnoughAccountKeys", accts)
    ELSE LET owner_info == accounts[1]
             transfer_account_info == accounts[2]
             pda == find_program_address(<<to_bytes(owner_info)>>, program_id)
         IN  IF owner_info \notin signers
             THEN Result("MissingRequiredSignature", accts)
             ELSE IF transfer_account_info # pda[1]
             THEN Result("InvalidSeeds", accts)
             ELSE IF already_exists(accts[transfer_account_info])
             THEN Result("Ok", accts)
             ELSE LET created == create_account(accts, owner_info, transfer_account_info,
                                                minimum_balance(LEN), LEN, program_id)
                  IN  IF created.err # "Ok"
                      THEN created
                      ELSE Result("Ok",
                              [created.accts EXCEPT ![transfer_account_info].data =
                                  Raw(pack(owner_info, U64(0), @.bytes))])

\* overflow_checks: whether the build panics on arithmetic overflow or wraps
\* the result of the account-set check thrown away
validate_extra_accounts_Unchecked(accounts, signers, data) == "Ok"

\* the presented accounts, all of them, checked against the stored list
validate_extra_accounts(accounts, signers, data) ==
    check_account_infos(
        [i \in 1..Len(accounts) |-> account_info_to_meta(accounts[i], signers)],
        data)

\* the update applied to the last presented account
update_transfer_account_Trailing(program_id, accounts, extra_account_metas_info, amount, accts, overflow_checks) ==
    LET transfer_account == accounts[Len(accounts)]
        record == unpack(accts[transfer_account].data.bytes)
        added == AddU64(record.transfered, amount)
    IN  IF Len(accounts) < 6
        THEN Result("NotEnoughAccountKeys", accts)
        ELSE IF accts[transfer_account].lamports = 0
        THEN Result("UninitializedAccount", accts)
        ELSE IF accts[transfer_account].owner # program_id
        THEN Result("IllegalOwner", accts)
        ELSE IF transfer_account = extra_account_metas_info
        THEN Result("AccountBorrowFailed", accts)
        ELSE IF record.err # "Ok"
        THEN Result(record.err, accts)
        ELSE IF added.overflow /\ overflow_checks
        THEN Result("Panic", accts)
        ELSE Result("Ok", [accts EXCEPT ![transfer_account].data =
                              Raw(update_transfered(@.bytes, added.sum))])

\* "Get the transfer account (must already exist)" to the end of the handler:
\* the next account after the five fixed ones is checked and updated
update_transfer_account(program_id, accounts, extra_account_metas_info, amount, accts, overflow_checks) ==
    IF Len(accounts) < 6
    THEN Result("NotEnoughAccountKeys", accts)
    ELSE LET transfer_account == accounts[6]
         IN  IF accts[transfer_account].lamports = 0
             THEN Result("UninitializedAccount", accts)
             ELSE IF accts[transfer_account].owner # program_id
             THEN Result("IllegalOwner", accts)
             \* the validation account's data is still borrowed
             ELSE IF transfer_account = extra_account_metas_info
             THEN Result("AccountBorrowFailed", accts)
             ELSE LET record == unpack(accts[transfer_account].data.bytes)
                      added == AddU64(record.transfered, amount)
                  IN  IF record.err # "Ok"
                      THEN Result(record.err, accts)
                      ELSE IF added.overflow /\ overflow_checks
                      THEN Result("Panic", accts)
                      ELSE Result("Ok",
                              [accts EXCEPT ![transfer_account].data =
                                  Raw(update_transfered(@.bytes, added.sum))])

\* the handler with the update moved in front of the checks
process_execute_UpdateFirst(program_id, accounts, signers, amount, accts, overflow_checks) ==
    IF Len(accounts) < 6
    THEN Result("NotEnoughAccountKeys", accts)
    ELSE LET updated == update_transfer_account(program_id, accounts, accounts[5], amount,
                                                accts, overflow_checks)
             source_check == check_token_account_is_transferring(accts[accounts[1]])
             destination_check == check_token_account_is_transferring(accts[accounts[3]])
             checked == validate_extra_accounts(accounts, signers, accts[accounts[5]].data.bytes)
         IN  IF updated.err # "Ok"
             THEN updated
             ELSE IF source_check # "Ok"
             THEN Result(source_check, updated.accts)
             ELSE IF destination_check # "Ok"
             THEN Result(destination_check, updated.accts)
             ELSE IF get_extra_account_metas_address(accounts[2], program_id) # accounts[5]
             THEN Result("InvalidSeeds", updated.accts)
             ELSE Result(checked, updated.accts)

process_execute(program_id, accounts, signers, amount, accts, overflow_checks) ==
    IF Len(accounts) < 5
    THEN Result("NotEnoughAccountKeys", accts)
    ELSE LET source_account_info == accounts[1]
             mint_info == accounts[2]
             destination_account_info == accounts[3]
             extra_account_metas_info == accounts[5]
             source_check == check_token_account_is_transferring(accts[source_account_info])
             destination_check ==
                 check_token_account_is_transferring(accts[destination_account_info])
             expected_validation_address ==
                 get_extra_account_metas_address(mint_info, program_id)
             checked ==
                 validate_extra_accounts(accounts, signers,
                                         accts[extra_account_metas_info].data.bytes)
         IN  IF source_check # "Ok"
             THEN Result(source_check, accts)
             ELSE IF destination_check # "Ok"
             THEN Result(destination_check, accts)
             ELSE IF expected_validation_address # extra_account_metas_info
             THEN Result("InvalidSeeds", accts)
             ELSE IF checked # "Ok"
             THEN Result(checked, accts)
             ELSE update_transfer_account(program_id, accounts, extra_account_metas_info,
                                          amount, accts, overflow_checks)

\* the check without the comparison of the signer with the mint's authority
check_mint_authority_AnySigner(mint_data, authority_info, signers) ==
    IF mint_data.kind # "mint"
    THEN "InvalidAccountData"
    ELSE IF mint_data.mint_authority = <<>>
    THEN "MintHasNoMintAuthority"
    ELSE IF authority_info \notin signers
    THEN "MissingRequiredSignature"
    ELSE "Ok"

\* "check that the mint authority is valid" and "Check signers"
check_mint_authority(mint_data, authority_info, signers) ==
    IF mint_data.kind # "mint"
    THEN "InvalidAccountData"
    ELSE IF mint_data.mint_authority = <<>>
    THEN "MintHasNoMintAuthority"
    ELSE IF authority_info \notin signers
    THEN "MissingRequiredSignature"
    ELSE IF authority_info # mint_data.mint_authority[1]
    THEN "IncorrectMintAuthority"
    ELSE "Ok"

process_initialize_extra_account_meta_list(program_id, accounts, signers, extra_account_metas, accts) ==
    IF Len(accounts) < 4
    THEN Result("NotEnoughAccountKeys", accts)
    ELSE LET extra_account_metas_info == accounts[1]
             mint_info == accounts[2]
             authority_info == accounts[3]
             authority == check_mint_authority(accts[mint_info].data, authority_info, signers)
             address_and_bump ==
                 get_extra_account_metas_address_and_bump_seed(mint_info, program_id)
             account_size == size_of(Len(extra_account_metas))
             allocated == allocate(accts, extra_account_metas_info, account_size)
             assigned == assign(allocated.accts, extra_account_metas_info, program_id)
             written == list_init(assigned.accts[extra_account_metas_info].data.bytes,
                                  extra_account_metas)
         IN  IF authority # "Ok"
             THEN Result(authority, accts)
             ELSE IF address_and_bump[1] # extra_account_metas_info
             THEN Result("InvalidSeeds", accts)
             ELSE IF allocated.err # "Ok"
             THEN allocated
             ELSE IF assigned.err # "Ok"
             THEN assigned
             ELSE IF written.err # "Ok"
             THEN Result(written.err, assigned.accts)
             ELSE Result("Ok",
                     [assigned.accts EXCEPT ![extra_account_metas_info].data =
                         Raw(written.data)])

\* ExtraAccountMetaList::update: the data after the rewrite, or the error
list_update(data, metas) ==
    IF Len(data) < TLV_START \/ Slice(data, 0, 8) # EXECUTE_DISCRIMINATOR
    THEN [err |-> "InvalidAccountData"]
    ELSE LET old_length == FromU32LE(Slice(data, 8, 4))
             new_length == SLICE_LENGTH_SIZE + META_SIZE * Len(metas)
             cleared == [i \in 1..Len(data) |->
                            IF i > TLV_START /\ i <= TLV_START + old_length
                            THEN 0 ELSE data[i]]
         IN  IF TLV_START + new_length > Len(data)
             THEN [err |-> "InvalidAccountData"]
             ELSE [err |-> "Ok",
                   data |-> CopyInto(cleared, 8,
                               U32LE(new_length) \o PodSlicePack(metas))]

\* AccountInfo::resize: truncate, or extend with zeros
resize(bytes, new_len) ==
    [i \in 1..new_len |-> IF i <= Len(bytes) THEN bytes[i] ELSE 0]

\* one operation on the list's storage: a resize from one length to another,
\* or the write of the entries into storage of some length
Resized(from, to) == [op |-> "resize", from |-> from, to |-> to]

Updated(size) == [op |-> "update", size |-> size]

\* the entries written first and the storage resized afterwards, always
write_extra_account_metas_UpdateFirst(original, extra_account_metas) ==
    LET account_size == size_of(Len(extra_account_metas))
        rewritten == list_update(original, extra_account_metas)
    IN  IF rewritten.err # "Ok"
        THEN [err |-> rewritten.err, data |-> original,
              steps |-> <<Updated(Len(original))>>]
        ELSE [err |-> "Ok", data |-> resize(rewritten.data, account_size),
              steps |-> <<Updated(Len(original)), Resized(Len(original), account_size)>>]

\* "If the new extra_account_metas length is different, resize the account
\* and update": the data the handler leaves, and its operations in order
write_extra_account_metas(original, extra_account_metas) ==
    LET original_account_size == Len(original)
        account_size == size_of(Len(extra_account_metas))
        resized == resize(original, account_size)
        grown == list_update(resized, extra_account_metas)
        rewritten == list_update(original, extra_account_metas)
    IN  IF account_size >= original_account_size
        THEN IF grown.err # "Ok"
             THEN [err |-> grown.err, data |-> resized,
                   steps |-> <<Resized(original_account_size, account_size),
                               Updated(Len(resized))>>]
             ELSE [err |-> "Ok", data |-> grown.data,
                   steps |-> <<Resized(original_account_size, account_size),
                               Updated(Len(resized))>>]
        ELSE IF rewritten.err # "Ok"
             THEN [err |-> rewritten.err, data |-> original,
                   steps |-> <<Updated(Len(original))>>]
             ELSE [err |-> "Ok", data |-> resize(rewritten.data, account_size),
                   steps |-> <<Updated(Len(original)),
                               Resized(Len(rewritten.data), account_size)>>]

process_update_extra_account_meta_list(program_id, accounts, signers, extra_account_metas, accts) ==
    IF Len(accounts) < 3
    THEN Result("NotEnoughAccountKeys", accts)
    ELSE LET extra_account_metas_info == accounts[1]
             mint_info == accounts[2]
             authority_info == accounts[3]
             authority == check_mint_authority(accts[mint_info].data, authority_info, signers)
             expected_validation_address ==
                 get_extra_account_metas_address(mint_info, program_id)
             min_account_size == size_of(0)
             original == accts[extra_account_metas_info].data.bytes
             original_account_size == Len(original)
             written == write_extra_account_metas(original, extra_account_metas)
         IN  IF authority # "Ok"
             THEN Result(authority, accts)
             ELSE IF expected_validation_address # extra_account_metas_info
             THEN Result("InvalidSeeds", accts)
             ELSE IF \/ program_id # accts[extra_account_metas_info].owner
                     \/ original_account_size < min_account_size
             THEN Result("UninitializedAccount", accts)
             ELSE [err |-> written.err,
                   accts |-> [accts EXCEPT ![extra_account_metas_info].data =
                                 Raw(written.data)],
                   steps |-> written.steps]

(***************************************************************************)
(* Instruction data (spl_transfer_hook_interface::instruction).            *)
(***************************************************************************)
\* TransferHookInstruction::Execute { amount }.pack()
execute_pack(amount) == EXECUTE_DISCRIMINATOR \o to_le_bytes(amount)

initialize_pack(metas) == INITIALIZE_DISCRIMINATOR \o PodSlicePack(metas)

update_pack(metas) == UPDATE_DISCRIMINATOR \o PodSlicePack(metas)

\* TransferHookInstruction::unpack: the decoded instruction, or the error
instruction_unpack(input) ==
    IF Len(input) < 8
    THEN [err |-> "InvalidInstructionData"]
    ELSE LET discriminator == Slice(input, 0, 8)
             rest == Slice(input, 8, Len(input) - 8)
             metas == PodSliceUnpack(rest)
         IN  IF discriminator = EXECUTE_DISCRIMINATOR
             THEN IF Len(rest) < 8
                  THEN [err |-> "InvalidInstructionData"]
                  ELSE [err |-> "Ok", tag |-> "Execute",
                        amount |-> from_le_bytes(Slice(rest, 0, 8))]
             ELSE IF discriminator = INITIALIZE_DISCRIMINATOR
             THEN IF metas.err # "Ok"
                  THEN [err |-> metas.err]
                  ELSE [err |-> "Ok", tag |-> "InitializeExtraAccountMetaList",
                        extra_account_metas |-> metas.metas]
             ELSE IF discriminator = UPDATE_DISCRIMINATOR
             THEN IF metas.err # "Ok"
                  THEN [err |-> metas.err]
                  ELSE [err |-> "Ok", tag |-> "UpdateExtraAccountMetaList",
                        extra_account_metas |-> metas.metas]
             ELSE [err |-> "InvalidInstructionData"]

(***************************************************************************)
(* The dispatcher: the handler that ran, its error code and the store as   *)
(* the handler left it.                                                    *)
(***************************************************************************)
Routed(op, result) == [op |-> op, err |-> result.err, accts |-> result.accts]

\* the custom instruction recognized only when it is the whole buffer
is_custom_instruction_WholeBuffer(input) == input = <<INITIALIZE_TRANSFER_ACCOUNT>>

\* "Check if this is a custom instruction (discriminator 255)"
is_custom_instruction(input) ==
    input # <<>> /\ input[1] = INITIALIZE_TRANSFER_ACCOUNT

process(program_id, accounts, signers, input, accts, overflow_checks) ==
    IF is_custom_instruction(input)
    THEN Routed("InitializeTransferAccount",
                process_initialize_transfer_account(program_id, accounts, signers, accts))
    ELSE LET instruction == instruction_unpack(input)
         IN  IF instruction.err # "Ok"
             THEN Routed("Unpack", Result(instruction.err, accts))
             ELSE IF instruction.tag = "Execute"
             THEN Routed("Execute",
                         process_execute(program_id, accounts, signers,
                                         instruction.amount, accts, overflow_checks))
             ELSE IF instruction.tag = "InitializeExtraAccountMetaList"
             THEN Routed("InitializeExtraAccountMetaList",
                         process_initialize_extra_account_meta_list(
                             program_id, accounts, signers,
                             instruction.extra_account_metas, accts))
             ELSE Routed("UpdateExtraAccountMetaList", Result("Ok", accts))

(***************************************************************************)
(* State.                                                                  *)
(*   accounts  the account store: lamports, owning program and data        *)
(*   last      the invocation whose result has not been returned yet, with *)
(*             the operations on a list's storage an update performed      *)
(*   pre       the store as that invocation found it                       *)
(*   executed  number of successful Execute invocations so far             *)
(*   created   the addresses InitializeTransferAccount created a record at *)
(*   credited  per address, the sum of the amounts of the successful       *)
(*             Execute invocations that took it as the counter, as a       *)
(*             numeral of nine digits (it does not wrap)                   *)
(*   codec     a buffer the TransferAccount codec is applied to on its     *)
(*             own: the operation applied last, the buffer before and      *)
(*             after it, and the owner and amount last written             *)
(***************************************************************************)
VARIABLES accounts, last, pre, executed, created, credited, codec

vars == <<accounts, last, pre, executed, created, credited, codec>>

Widen(v) == <<0>> \o v

AddWide(a, b) ==
    [i \in 1..9 |-> (Digit(a, 9 - i) + Digit(b, 9 - i) + CarryInto(a, b, 9 - i)) % 256]

NoCall ==
    [op |-> "None", input |-> <<>>, accts |-> <<>>, signers |-> {},
     err |-> "None", wrote |-> FALSE, steps |-> <<>>]

Transaction(input, accts, signers) ==
    [input |-> input, accts |-> accts, signers |-> signers]

\* the mint authority of each mint
AuthorityOf(mint) ==
    IF mint = M1 THEN <<O1>> ELSE IF mint = M2 THEN <<O2>> ELSE <<>>

\* The ledger the program is deployed on: funded wallets, three mints, four
\* token accounts, funded and still empty validation addresses, and one
\* counter address (CP3) that received lamports without being created.
InitialAccount(a) ==
    IF a \in Wallets
    THEN [lamports |-> 2 * minimum_balance(LEN), owner |-> SYSTEM_PROGRAM, data |-> Raw(<<>>)]
    ELSE IF a \in Mints
    THEN [lamports |-> 1, owner |-> TOKEN_PROGRAM, data |-> MintData(AuthorityOf(a))]
    ELSE IF a \in TokenAccounts
    THEN [lamports |-> 1,
          owner |-> IF a = FK THEN OTHER_PROGRAM ELSE TOKEN_PROGRAM,
          data |-> TokenData(a # TC)]
    ELSE [lamports |-> IF a \in Lists \cup {CP3} THEN 1 ELSE 0,
          owner |-> SYSTEM_PROGRAM,
          data |-> Raw(<<>>)]

\* a buffer nothing was packed into yet
NewBuffer(dst) ==
    [op |-> "new", before |-> dst, data |-> dst, owner |-> OtherKey, transfered |-> U64(0)]

InitLedger ==
    /\ accounts = [a \in Addrs |-> InitialAccount(a)]
    /\ last = NoCall
    /\ pre = accounts
    /\ executed = 0
    /\ created = {}
    /\ credited = [a \in Addrs |-> Widen(U64(0))]

Init ==
    /\ InitLedger
    /\ codec = NewBuffer(Zeros(LEN))

(***************************************************************************)
(* The inputs of the model.                                                *)
(***************************************************************************)
SeqsUpTo(S, n) == UNION {[1..m -> S] : m \in 0..n}

Amounts == {U64(50), U64(100), U64_MAX}

\* addresses an extra-account-meta list may name
EntryAddrs == {CP1, CP2}

MetaLists ==
    {[i \in 1..Len(ks) |-> MetaBytes(ks[i], FALSE, TRUE)] : ks \in SeqsUpTo(EntryAddrs, MaxEntries)}

\* accounts presented to Execute after the validation account
TailAddrs == {CP1, CP2, MP2}

Tails == SeqsUpTo(TailAddrs, MaxTail)

\* a transfer from TA to TB of mint M1, or of mint M2
TransferAccounts ==
    {<<TA, M1, TB, O1, MP1>> \o t : t \in Tails}
    \cup {<<TA, M2, TB, O2, MP2>> \o t : t \in {<<>>, <<CP1>>, <<CP2>>}}

OtherAccounts ==
    \* source or destination outside a transfer, of another program, or no token account
    {<<s, M1, d, O1, MP1>> \o t : s \in {TA, TC, FK, O3}, d \in {TB, TC, O2}, t \in {<<>>, <<CP1>>}}
    \* the validation account of another mint, a mint without a list, a counter
    \* address that was never created, a list in the place of the counter, too
    \* few accounts
    \cup {<<TA, M1, TB, O1, MP2, CP1>>, <<TA, M3, TB, O1, MP3, CP1>>,
          <<TA, M1, TB, O1, MP1, CP3>>, <<TA, M1, TB, O1, MP1, MP1>>,
          <<TA, M2, TB, O2, MP2, MP1, CP2>>, <<TC, M1, TB, O1>>}

ExecuteInputs ==
    \* every amount with one account after the validation account
    {Transaction(execute_pack(a), <<TA, M1, TB, O1, MP1, c>>, {O1}) :
        a \in Amounts, c \in TailAddrs}
    \cup {Transaction(execute_pack(U64(100)), accts, {O1}) : accts \in TransferAccounts}
    \cup {Transaction(execute_pack(U64(50)), accts, {O1}) : accts \in OtherAccounts}

InitializeTransferAccountInputs ==
    \* every owner signs for its own counter address
    {Transaction(<<INITIALIZE_TRANSFER_ACCOUNT>>, <<o, CounterOf(o), SYSTEM_PROGRAM>>, {o}) :
        o \in Wallets}
    \* no signature, the counter address of another owner, too few accounts
    \cup {Transaction(<<INITIALIZE_TRANSFER_ACCOUNT>>, <<O1, CP1, SYSTEM_PROGRAM>>, {}),
          Transaction(<<INITIALIZE_TRANSFER_ACCOUNT>>, <<O1, CP2, SYSTEM_PROGRAM>>, {O1}),
          Transaction(<<INITIALIZE_TRANSFER_ACCOUNT>>, <<O1, CP2, SYSTEM_PROGRAM>>, {}),
          Transaction(<<INITIALIZE_TRANSFER_ACCOUNT>>, <<O1, CP1>>, {O1}),
          \* bytes after the discriminator
          Transaction(<<INITIALIZE_TRANSFER_ACCOUNT, 7, 7>>, <<O1, CP1, SYSTEM_PROGRAM>>, {O1})}

OneMeta == <<MetaBytes(CP2, FALSE, TRUE)>>

InitializeExtraAccountMetaListInputs ==
    \* the authority of M1 initializes the list of M1; the authority of M2 that of M2
    {Transaction(initialize_pack(ms), <<MP1, M1, O1, SYSTEM_PROGRAM>>, {O1}) : ms \in MetaLists}
    \cup {Transaction(initialize_pack(OneMeta), <<MP2, M2, O2, SYSTEM_PROGRAM>>, {O2})}
    \* a mint without authority, another signer, no signature, the validation
    \* address of another mint, too few accounts
    \cup {Transaction(initialize_pack(OneMeta), <<MP3, M3, O1, SYSTEM_PROGRAM>>, {O1}),
          Transaction(initialize_pack(OneMeta), <<MP1, M1, O2, SYSTEM_PROGRAM>>, {O2}),
          Transaction(initialize_pack(OneMeta), <<MP1, M1, O1, SYSTEM_PROGRAM>>, {}),
          Transaction(initialize_pack(OneMeta), <<MP2, M1, O1, SYSTEM_PROGRAM>>, {O1}),
          Transaction(initialize_pack(OneMeta), <<MP1, M1, O1>>, {O1})}

UpdateExtraAccountMetaListInputs ==
    {Transaction(update_pack(OneMeta), <<MP1, M1, O1>>, {O1}),
     Transaction(update_pack(<<>>), <<MP1, M1, O1>>, {O1}),
     Transaction(update_pack(OneMeta), <<MP1, M1, O2>>, {O2}),
     Transaction(update_pack(OneMeta), <<MP1, M1, O1>>, {}),
     Transaction(update_pack(OneMeta), <<MP3, M3, O1>>, {O1})}

\* buffers that are no instruction: empty, a single byte, 255 not in front,
\* the Execute discriminator without an amount, an unknown discriminator
InvalidInstructionInputs ==
    {Transaction(input, <<O1, CP1, SYSTEM_PROGRAM>>, {O1}) :
        input \in {<<>>, <<254>>, <<0, INITIALIZE_TRANSFER_ACCOUNT>>,
                   EXECUTE_DISCRIMINATOR, <<1, 2, 3, 4, 5, 6, 7, 8>> \o to_le_bytes(U64(50))}}

(***************************************************************************)
(* Actions.  An invocation runs its handler to the end; the runtime keeps  *)
(* the handler's writes when it returns Ok and discards them otherwise.    *)
(***************************************************************************)
Invoke(tx, overflow_checks) ==
    LET r == process(PROGRAM_ID, tx.accts, tx.signers, tx.input, accounts, overflow_checks)
    IN  /\ last = NoCall
        /\ accounts' = IF r.err = "Ok" THEN r.accts ELSE accounts
        /\ last' = [op |-> r.op, input |-> tx.input, accts |-> tx.accts,
                    signers |-> tx.signers, err |-> r.err, wrote |-> r.accts # accounts,
                    steps |-> <<>>]
        /\ pre' = accounts
        /\ executed' = IF r.op = "Execute" /\ r.err = "Ok" THEN executed + 1 ELSE executed
        /\ created' = IF r.op = "InitializeTransferAccount" /\ r.err = "Ok"
                         /\ r.accts # accounts
                      THEN created \cup {tx.accts[2]}
                      ELSE created
        /\ credited' = IF r.op = "Execute" /\ r.err = "Ok"
                       THEN [credited EXCEPT ![tx.accts[6]] =
                               AddWide(@, Widen(instruction_unpack(tx.input).amount))]
                       ELSE credited
        /\ UNCHANGED codec

InitializeTransferAccount ==
    \E tx \in InitializeTransferAccountInputs : Invoke(tx, TRUE)

Execute ==
    /\ executed < MaxExec
    /\ \E tx \in ExecuteInputs : \E overflow_checks \in BOOLEAN : Invoke(tx, overflow_checks)

InitializeExtraAccountMetaList ==
    \E tx \in InitializeExtraAccountMetaListInputs : Invoke(tx, TRUE)

UpdateExtraAccountMetaList ==
    \E tx \in UpdateExtraAccountMetaListInputs : Invoke(tx, TRUE)

InvalidInstruction ==
    \E tx \in InvalidInstructionInputs : Invoke(tx, TRUE)

\* the result goes back to the caller
Return ==
    /\ last # NoCall
    /\ last' = NoCall
    /\ pre' = accounts
    /\ UNCHANGED <<accounts, executed, created, credited, codec>>

Next ==
    \/ InitializeTransferAccount
    \/ Execute
    \/ InitializeExtraAccountMetaList
    \/ UpdateExtraAccountMetaList
    \/ InvalidInstruction
    \/ Return

Spec == Init /\ [][Next]_vars

(***************************************************************************)
(* The update handler called for itself, as the dispatcher would call it   *)
(* with the decoded entries, on lists that InitializeExtraAccountMetaList  *)
(* wrote.                                                                  *)
(***************************************************************************)
UpdateHandlerInputs ==
    \* the authority of M1 replaces the list of M1; that of M2 the list of M2
    {Transaction(update_pack(ms), <<MP1, M1, O1>>, {O1}) : ms \in MetaLists}
    \cup {Transaction(update_pack(<<>>), <<MP2, M2, O2>>, {O2}),
          \* another signer, no signature, the list of another mint
          Transaction(update_pack(OneMeta), <<MP1, M1, O2>>, {O2}),
          Transaction(update_pack(OneMeta), <<MP1, M1, O1>>, {}),
          Transaction(update_pack(OneMeta), <<MP2, M1, O1>>, {O1})}

UpdateHandler ==
    \E tx \in UpdateHandlerInputs :
        LET r == process_update_extra_account_meta_list(
                     PROGRAM_ID, tx.accts, tx.signers,
                     instruction_unpack(tx.input).extra_account_metas, accounts)
        IN  /\ last = NoCall
            /\ accounts' = IF r.err = "Ok" THEN r.accts ELSE accounts
            /\ last' = [op |-> "UpdateHandler", input |-> tx.input, accts |-> tx.accts,
                        signers |-> tx.signers, err |-> r.err,
                        wrote |-> r.accts # accounts,
                        steps |-> IF "steps" \in DOMAIN r THEN r.steps ELSE <<>>]
            /\ pre' = accounts
            /\ UNCHANGED <<executed, created, credited, codec>>

UpdateNext ==
    \/ InitializeExtraAccountMetaList
    \/ UpdateHandler
    \/ Return

UpdateSpec == Init /\ [][UpdateNext]_vars

(***************************************************************************)
(* The TransferAccount codec on its own: pack and update_transfered        *)
(* applied, in any order, to buffers of the record's size or longer that   *)
(* hold zeros or earlier data.                                             *)
(***************************************************************************)
CodecBuffers ==
    {Zeros(LEN), [i \in 1..LEN |-> i], [i \in 1..(LEN + 8) |-> 255 - i]}

CodecKeys == {O1, O2, PROGRAM_ID}

CodecAmounts == {U64(0), U64(50), U64(258), <<1, 2, 3, 4, 5, 6, 7, 8>>, U64_MAX}

CodecInit ==
    /\ InitLedger
    /\ codec \in {NewBuffer(dst) : dst \in CodecBuffers}

PackRecord ==
    /\ \E owner \in CodecKeys, transfered \in CodecAmounts :
          codec' = [op |-> "pack", before |-> codec.data,
                    data |-> pack(owner, transfered, codec.data),
                    owner |-> owner, transfered |-> transfered]
    /\ UNCHANGED <<accounts, last, pre, executed, created, credited>>

UpdateRecord ==
    /\ codec.op # "new"
    /\ \E transfered \in CodecAmounts :
          codec' = [op |-> "update", before |-> codec.data,
                    data |-> update_transfered(codec.data, transfered),
                    owner |-> codec.owner, transfered |-> transfered]
    /\ UNCHANGED <<accounts, last, pre, executed, created, credited>>

CodecNext == PackRecord \/ UpdateRecord

CodecSpec == CodecInit /\ [][CodecNext]_vars

(***************************************************************************)
(* Vocabulary of the properties.  They speak about the invocation in       *)
(* `last`, the store `pre` it found and the store `accounts` it left.      *)
(***************************************************************************)
Called(op) == last.op = op

\* the account presented at (one-based) position i
Presented(i) == last.accts[i]

Unchanged == accounts = pre /\ ~last.wrote

IsTokenAccount(a) == pre[a].data.kind = "token"

Transferring(a) == IsTokenAccount(a) /\ pre[a].data.transferring

\* the accounts presented after the validation account
ExtraAccounts == SubSeq(last.accts, 6, Len(last.accts))

\* Execute found both token accounts inside a transfer and the validation
\* account at the address derived from the mint
GatePassed ==
    /\ Len(last.accts) >= 5
    /\ Transferring(Presented(1))
    /\ Transferring(Presented(3))

ValidationAddressOk == Presented(5) = ListOf(Presented(2))

StoredList == list_unpack(pre[Presented(5)].data.bytes)

\* the addresses the stored list resolves to, in order
Resolved == [i \in 1..Len(StoredList.metas) |-> resolve(StoredList.metas[i]).meta.pubkey]

AccountSetPassed ==
    validate_extra_accounts(last.accts, last.signers, pre[Presented(5)].data.bytes) = "Ok"

\* one of the last k presented accounts, k the number of entries of the stored
\* list, is not the address its entry resolves to
TrailingMismatch ==
    LET k == Len(Resolved)
        initial_accounts_len == Len(last.accts) - k
    IN  \E i \in 1..k :
            \/ initial_accounts_len + i < 1
            \/ Presented(initial_accounts_len + i) # Resolved[i]

\* the amount stored in a counter record
StoredAmount(a) == unpack(accounts[a].data.bytes).transfered

\* the record at a was created by an InitializeTransferAccount that returned
\* before this invocation began
CreatedBefore(a) ==
    a \in created /\ pre[a].owner = PROGRAM_ID /\ Len(pre[a].data.bytes) = LEN

IsInitializedList(store, l) ==
    store[l].owner = PROGRAM_ID /\ Len(store[l].data.bytes) >= size_of(0)

(***************************************************************************)
(* C1.  Execute presented with the five fixed accounts, whose source       *)
(* account has its transferring flag off, or whose source is inside a      *)
(* transfer and whose destination has the flag off, fails with             *)
(* ProgramCalledOutsideOfTransfer whatever the validation account, the     *)
(* extra accounts and the counter are, and writes nothing.                 *)
(***************************************************************************)
C1_GateEnforced ==
    (/\ Called("Execute")
     /\ Len(last.accts) >= 5
     /\ IsTokenAccount(Presented(1))
     /\ \/ ~Transferring(Presented(1))
        \/ IsTokenAccount(Presented(3)) /\ ~Transferring(Presented(3)))
    => (last.err = "ProgramCalledOutsideOfTransfer" /\ Unchanged)

\* the source is inside a transfer, the destination is not, and everything
\* else about the call is valid: list initialized, counter created
C1_Witness ==
    /\ Called("Execute")
    /\ Len(last.accts) >= 6
    /\ Transferring(Presented(1))
    /\ IsTokenAccount(Presented(3)) /\ ~Transferring(Presented(3))
    /\ ValidationAddressOk /\ AccountSetPassed
    /\ CreatedBefore(Presented(6))
    /\ last.err = "ProgramCalledOutsideOfTransfer"

(***************************************************************************)
(* C2.  As stated: Execute fails with IncorrectAccount whenever the        *)
(* accounts presented after the validation account differ from the         *)
(* addresses the stored list resolves to, one of them missing or the       *)
(* account at some position not the address resolved for that position.    *)
(* Stated for calls that are valid otherwise: the gate passed, the         *)
(* validation address is right, the account after the validation account   *)
(* is a created counter.                                                   *)
(***************************************************************************)
C2_ExtrasMatchedAfterList ==
    (/\ Called("Execute")
     /\ GatePassed /\ ValidationAddressOk
     /\ StoredList.err = "Ok"
     /\ \/ Len(ExtraAccounts) < Len(Resolved)
        \/ \E i \in 1..Len(Resolved) : ExtraAccounts[i] # Resolved[i]
     /\ Len(last.accts) >= 6 => CreatedBefore(Presented(6)))
    => last.err = "IncorrectAccount"

(***************************************************************************)
(* C2, amended.  Execute that passed the gate and the validation address   *)
(* fails with IncorrectAccount, writing nothing, whenever the last k       *)
(* presented accounts are not, position by position, the addresses the k   *)
(* entries of the stored list resolve to; the same addresses presented     *)
(* elsewhere or in another order do not help.                              *)
(***************************************************************************)
C2_TrailingAccountsMatched ==
    (/\ Called("Execute")
     /\ GatePassed /\ ValidationAddressOk
     /\ StoredList.err = "Ok"
     /\ TrailingMismatch)
    => (last.err = "IncorrectAccount" /\ Unchanged)

\* the two resolved accounts are presented, both, in the opposite order, and
\* the account after the validation account is a created counter
C2_Witness ==
    /\ Called("Execute")
    /\ GatePassed /\ ValidationAddressOk
    /\ StoredList.err = "Ok"
    /\ Len(Resolved) = 2 /\ Resolved[1] # Resolved[2]
    /\ ExtraAccounts = <<Resolved[2], Resolved[1]>>
    /\ CreatedBefore(Presented(6))
    /\ last.err = "IncorrectAccount"

(***************************************************************************)
(* C3.  InitializeExtraAccountMetaList for a mint without mint authority   *)
(* fails with MintHasNoMintAuthority; signed by a key that is not the      *)
(* mint's authority it fails with IncorrectMintAuthority; in both cases    *)
(* the handler writes nothing.                                             *)
(***************************************************************************)
C3_InitializeAuthorityEnforced ==
    (/\ Called("InitializeExtraAccountMetaList")
     /\ Len(last.accts) >= 4
     /\ pre[Presented(2)].data.kind = "mint")
    => LET mint_authority == pre[Presented(2)].data.mint_authority
       IN  /\ mint_authority = <<>>
              => (last.err = "MintHasNoMintAuthority" /\ Unchanged)
           /\ (/\ mint_authority # <<>>
               /\ Presented(3) \in last.signers
               /\ Presented(3) # mint_authority[1])
              => (last.err = "IncorrectMintAuthority" /\ Unchanged)

\* a signer that is not the authority asked for the list of the mint, at the
\* right validation address
C3_Witness ==
    /\ Called("InitializeExtraAccountMetaList")
    /\ Len(last.accts) >= 4
    /\ pre[Presented(2)].data.kind = "mint"
    /\ pre[Presented(2)].data.mint_authority # <<>>
    /\ Presented(3) \in last.signers
    /\ Presented(3) # pre[Presented(2)].data.mint_authority[1]
    /\ Presented(1) = ListOf(Presented(2))
    /\ last.err = "IncorrectMintAuthority"

(***************************************************************************)
(* C4.  UpdateExtraAccountMetaList through process fails for a caller      *)
(* without authority: MintHasNoMintAuthority when the mint has none,       *)
(* MissingRequiredSignature when the authority account did not sign,       *)
(* IncorrectMintAuthority when the signer is not the mint's authority.     *)
(***************************************************************************)
C4_UpdateAuthorityEnforced ==
    (/\ Called("UpdateExtraAccountMetaList")
     /\ Len(last.accts) >= 3
     /\ pre[Presented(2)].data.kind = "mint")
    => LET mint_authority == pre[Presented(2)].data.mint_authority
       IN  /\ mint_authority = <<>> => last.err = "MintHasNoMintAuthority"
           /\ (mint_authority # <<>> /\ Presented(3) \notin last.signers)
              => last.err = "MissingRequiredSignature"
           /\ (/\ mint_authority # <<>>
               /\ Presented(3) \in last.signers
               /\ Presented(3) # mint_authority[1])
              => last.err = "IncorrectMintAuthority"

(***************************************************************************)
(* C5.  After a successful UpdateExtraAccountMetaList through process,     *)
(* signed by the mint's authority for an initialized list, the list's      *)
(* data is exactly size_of(n) bytes and holds exactly the n new entries.   *)
(***************************************************************************)
C5_UpdateReplacesList ==
    (/\ Called("UpdateExtraAccountMetaList")
     /\ last.err = "Ok"
     /\ Len(last.accts) >= 3
     /\ check_mint_authority(pre[Presented(2)].data, Presented(3), last.signers) = "Ok"
     /\ Presented(1) = ListOf(Presented(2))
     /\ IsInitializedList(pre, Presented(1)))
    => LET new == instruction_unpack(last.input).extra_account_metas
           bytes == accounts[Presented(1)].data.bytes
       IN  /\ Len(bytes) = size_of(Len(new))
           /\ list_unpack(bytes) = [err |-> "Ok", metas |-> new]

(***************************************************************************)
(* C6.  The amount stored in a counter that InitializeTransferAccount      *)
(* created equals the sum of the amounts of the successful Execute         *)
(* invocations on it.                                                      *)
(***************************************************************************)
C6_CumulativeIsSum ==
    \A o \in Wallets :
        CounterOf(o) \in created
        => Widen(StoredAmount(CounterOf(o))) = credited[CounterOf(o)]

(***************************************************************************)
(* C7.  Execute with a counter account that InitializeTransferAccount has  *)
(* not created fails with UninitializedAccount and changes nothing.        *)
(* Stated for calls that pass the checks before the counter is looked at,  *)
(* and for counter accounts that are not the validation account itself and *)
(* not owned by another program.                                           *)
(***************************************************************************)
C7_ExecuteBeforeInitialize ==
    (/\ Called("Execute")
     /\ GatePassed /\ ValidationAddressOk /\ AccountSetPassed
     /\ Len(last.accts) >= 6
     /\ Presented(6) \notin created
     /\ Presented(6) # Presented(5)
     /\ pre[Presented(6)].lamports = 0 \/ pre[Presented(6)].owner = PROGRAM_ID)
    => (last.err = "UninitializedAccount" /\ Unchanged)

(***************************************************************************)
(* C8.  InitializeTransferAccount, signed by the owner for its derived     *)
(* counter address, succeeds when the record exists already and leaves     *)
(* every byte of the store as it was.                                      *)
(***************************************************************************)
C8_InitializeIdempotent ==
    (/\ Called("InitializeTransferAccount")
     /\ Len(last.accts) >= 3
     /\ Presented(1) \in last.signers
     /\ Presented(2) = CounterOf(Presented(1))
     /\ CreatedBefore(Presented(2)))
    => (last.err = "Ok" /\ Unchanged)

\* the second initialization came after an Execute had counted an amount
C8_Witness ==
    /\ Called("InitializeTransferAccount")
    /\ Len(last.accts) >= 3
    /\ Presented(1) \in last.signers
    /\ Presented(2) = CounterOf(Presented(1))
    /\ CreatedBefore(Presented(2))
    /\ StoredAmount(Presented(2)) # U64(0)
    /\ last.err = "Ok"

(***************************************************************************)
(* C9.  Every account a successful Execute changed is a counter record at  *)
(* the address derived from the owner key in its first 32 bytes.           *)
(***************************************************************************)
C9_CounterAtDerivedAddress ==
    (Called("Execute") /\ last.err = "Ok")
    => \A a \in Addrs :
          accounts[a] # pre[a]
          => a = CounterOf(unpack(accounts[a].data.bytes).owner)

(***************************************************************************)
(* C10.  Execute and InitializeTransferAccount leave every byte of every   *)
(* initialized extra-account-meta list as it was.                          *)
(***************************************************************************)
C10_ListsUntouched ==
    (Called("Execute") \/ Called("InitializeTransferAccount"))
    => \A l \in Lists : IsInitializedList(pre, l) => accounts[l] = pre[l]

\* a < b for two 64-bit numbers
LessU64(a, b) ==
    \E i \in 1..8 : a[i] < b[i] /\ \A j \in 1..(i - 1) : a[j] = b[j]

\* the amount a counter record held when the invocation began
AmountBefore(a) == unpack(pre[a].data.bytes).transfered

(***************************************************************************)
(* C11.  No invocation leaves a smaller amount in a created counter record *)
(* than it found there, also not an Execute whose amount added to the      *)
(* stored amount exceeds 2^64 - 1.                                         *)
(***************************************************************************)
C11_NeverDecreases ==
    \A o \in Wallets :
        CreatedBefore(CounterOf(o))
        => ~LessU64(StoredAmount(CounterOf(o)), AmountBefore(CounterOf(o)))

\* the amount carried by the Execute instruction data
ExecuteAmount == instruction_unpack(last.input).amount

C13_InitializeCreatesRecord ==
    (/\ Called("InitializeTransferAccount")
     /\ Len(last.accts) >= 3
     /\ pre[Presented(2)].lamports = 0)
    => /\ Presented(1) \notin last.signers
          => (last.err = "MissingRequiredSignature" /\ Unchanged)
       /\ (Presented(1) \in last.signers /\ Presented(2) # CounterOf(Presented(1)))
          => (last.err = "InvalidSeeds" /\ Unchanged)
       /\ last.err = "Ok"
          => /\ Presented(1) \in last.signers
             /\ Presented(2) = CounterOf(Presented(1))
             /\ accounts[Presented(2)].owner = PROGRAM_ID
             /\ accounts[Presented(2)].data.bytes = to_bytes(Presented(1)) \o Zeros(8)
             /\ unpack(accounts[Presented(2)].data.bytes)
                    = [err |-> "Ok", owner |-> Presented(1), transfered |-> U64(0)]

\* a record was created at an address that had no lamports
C13_Witness ==
    /\ Called("InitializeTransferAccount")
    /\ Len(last.accts) >= 3
    /\ pre[Presented(2)].lamports = 0
    /\ last.err = "Ok"
    /\ accounts[Presented(2)].lamports > 0
    /\ Len(accounts[Presented(2)].data.bytes) = LEN

(***************************************************************************)
(* C14.  An Execute that returns an error, whichever check raised it, has  *)
(* written nothing when it returns and leaves every account, so every      *)
(* counter record and every metadata list, as it was.                      *)
(***************************************************************************)
C14_FailedExecuteWritesNothing ==
    (Called("Execute") /\ last.err # "Ok") => Unchanged

\* the call failed at the last check, the decoding of the counter record,
\* while a created counter held an amount
C14_Witness ==
    /\ Called("Execute")
    /\ GatePassed /\ ValidationAddressOk /\ AccountSetPassed
    /\ Len(last.accts) >= 6
    /\ last.err = "InvalidAccountData"
    /\ \E o \in Wallets :
          CreatedBefore(CounterOf(o)) /\ StoredAmount(CounterOf(o)) # U64(0)

(***************************************************************************)
(* C15.  What pack wrote, unpack reads back: after pack(owner, a) the      *)
(* buffer unpacks to (owner, a); after update_transfered with b it unpacks *)
(* to (owner, b), and the update left every byte outside the 8 bytes at    *)
(* offset 32 as it was, the 32 bytes of the owner among them.              *)
(***************************************************************************)
C15_CodecRoundTrip ==
    /\ codec.op \in {"pack", "update"}
       => unpack(codec.data)
              = [err |-> "Ok", owner |-> codec.owner, transfered |-> codec.transfered]
    /\ codec.op = "update"
       => /\ Len(codec.data) = Len(codec.before)
          /\ \A i \in 1..Len(codec.data) :
                (i <= 32 \/ i > 40) => codec.data[i] = codec.before[i]

\* an amount whose eight bytes all differ replaced another amount
C15_Witness ==
    /\ codec.op = "update"
    /\ codec.transfered = <<1, 2, 3, 4, 5, 6, 7, 8>>
    /\ codec.data # codec.before
    /\ codec.owner = O2

\* the first eight bytes of the buffer are one of the standard discriminators
HasStandardDiscriminator ==
    /\ Len(last.input) >= 8
    /\ Slice(last.input, 0, 8)
           \in {EXECUTE_DISCRIMINATOR, INITIALIZE_DISCRIMINATOR, UPDATE_DISCRIMINATOR}

(***************************************************************************)
(* C16.  The dispatcher runs InitializeTransferAccount exactly for the     *)
(* buffers that are not empty and begin with the byte 255, whatever        *)
(* follows.  Every other buffer is decoded as a standard instruction: it   *)
(* runs the handler of the instruction it decodes to, and a buffer that    *)
(* does not decode fails with no handler run and nothing changed.          *)
(***************************************************************************)
C16_DispatchOnFirstByte ==
    last # NoCall
    => LET custom == last.input # <<>> /\ last.input[1] = 255
           decoded == instruction_unpack(last.input)
       IN  /\ Called("InitializeTransferAccount") <=> custom
           /\ (~custom /\ decoded.err = "Ok") => Called(decoded.tag)
           /\ (~custom /\ (decoded.err # "Ok" \/ ~HasStandardDiscriminator))
              => (Called("Unpack") /\ last.err # "Ok" /\ Unchanged)

\* a buffer of three bytes beginning with 255 created a counter record
C16_Witness ==
    /\ Called("InitializeTransferAccount")
    /\ Len(last.input) > 1
    /\ last.err = "Ok"
    /\ last.wrote

\* the entries an update was given, and the storage they need
NewMetas == instruction_unpack(last.input).extra_account_metas

NeededSize == size_of(Len(NewMetas))

(***************************************************************************)
(* C17.  Whenever the update handler touches the list's storage, it writes *)
(* the new entries while the storage has at least size_of(new count)       *)
(* bytes and before any shrink: for a new size not below the old one it    *)
(* resizes and then writes, for a smaller one it writes and then shrinks.  *)
(***************************************************************************)
C17_WriteBeforeShrink ==
    (Called("UpdateHandler") /\ last.steps # <<>>)
    => LET steps == last.steps
           old == Len(pre[Presented(1)].data.bytes)
       IN  /\ \A i \in 1..Len(steps) :
                  steps[i].op = "update"
                  => /\ steps[i].size >= NeededSize
                     /\ \A j \in 1..(i - 1) :
                            ~(steps[j].op = "resize" /\ steps[j].to < steps[j].from)
           /\ NeededSize >= old
              => steps = <<Resized(old, NeededSize), Updated(NeededSize)>>
           /\ (NeededSize < old /\ last.err = "Ok")
              => steps = <<Updated(old), Resized(old, NeededSize)>>
           /\ last.err = "Ok"
              => /\ Len(accounts[Presented(1)].data.bytes) = NeededSize
                 /\ list_unpack(accounts[Presented(1)].data.bytes)
                        = [err |-> "Ok", metas |-> NewMetas]

\* a list of two entries was replaced by a shorter one
C17_Witness ==
    /\ Called("UpdateHandler")
    /\ last.err = "Ok"
    /\ Len(list_unpack(pre[Presented(1)].data.bytes).metas) = 2
    /\ Len(NewMetas) < 2
    /\ Len(last.steps) = 2
    /\ last.steps[2].op = "resize"

(***************************************************************************)
(* C18.  Execute succeeds only when the source and the destination it was  *)
(* given are accounts of the token program with the transferring flag set; *)
(* an account of another program that holds the data of a token account    *)
(* with the flag set does not make it succeed.                             *)
(***************************************************************************)
C18_OnlyTokenProgramAccounts ==
    (Called("Execute") /\ last.err = "Ok")
    => /\ Transferring(Presented(1)) /\ pre[Presented(1)].owner = TOKEN_PROGRAM
       /\ Transferring(Presented(3)) /\ pre[Presented(3)].owner = TOKEN_PROGRAM

(***************************************************************************)
(* C19.  After every InitializeTransferAccount that returned success, the  *)
(* account at the counter address is owned by this program, holds exactly  *)
(* 40 bytes and unpacks to a record whose owner is the signer, also when   *)
(* the address held lamports before without having been created.           *)
(***************************************************************************)
C19_SuccessMeansRecord ==
    (Called("InitializeTransferAccount") /\ last.err = "Ok")
    => /\ accounts[Presented(2)].owner = PROGRAM_ID
       /\ Len(accounts[Presented(2)].data.bytes) = LEN
       /\ unpack(accounts[Presented(2)].data.bytes).err = "Ok"
       /\ unpack(accounts[Presented(2)].data.bytes).owner = Presented(1)

====
